---- MODULE Spec2Model ----
(***************************************************************************)
(* State-machine model of the light client's sampling and verification     *)
(* core: the parallel proof verifier (src/src/proof.rs) and the node       *)
(* connection manager (src/src/rpc.rs).                                    *)
(***************************************************************************)
EXTENDS Integers, Sequences, FiniteSets, Bags, TLC

(***************************************************************************)
(* Bounds of the model.                                                    *)
(***************************************************************************)
\* Largest batch handed to verify_proof.
MaxCells == 3
\* Largest row index a cell of the batch may carry.
MaxRow == 1
\* num_cpus::get(): the number of threads of the pool.
NumCpus == 2
\* Number of distinct endpoint addresses.
NumAddrs == 3
\* Longest configured endpoint list.
MaxNodes == 3
\* Cap on the build_client calls of one call that the model follows.
MaxAttempts == 5
\* Characters a version string is made of, and its greatest length.
NumChars == 2
MaxVersionLen == 3
\* Confidence inputs are the multiples of 1/ConfScale percent listed in
\* ConfNums; MaxHalvings is how many points 100 * (1 - 2^-k) are among them.
ConfScale == 1024
MaxHalvings == 12
\* Greatest rows and cols of the small matrices sampled, and the greatest
\* small cell_count asked of them.
MaxDimRows == 1
MaxDimCols == 2
MaxRequested == 3

\* Greatest number of positions in one kate_queryProof request, and the
\* greatest column of a position requested.
MaxPositions == 2
MaxCol == 1

\* Greatest small rows and cols of a header, and how many values of each
\* of number, app_data_lookup and commitment are told apart.
MaxHeaderDim == 2
NumHeaderValues == 2

\* Turns of the maintenance loop followed, and block numbers told apart.
MaxIterations == 4
NumBlocks == 2

\* Greatest value recorded, calls of record_u64 followed, and the latest
\* time, in seconds after initialize, the clock is followed to.
MaxValue == 2
MaxRecords == 3
MaxTime == 20

\* Greatest length of a topic, in characters, and of a block's data, in
\* bytes.
MaxTopicLen == 2
MaxDataLen == 2

\* Bytes of one row commitment: the slice bounds of proof.rs line 77.
COMMITMENT_SIZE == 48

\* cell_count_for_confidence: the range 50.0..100f64, the divisor 100f64,
\* the default confidence 99f64 and the greatest count kept, 10.
RANGE_START == 50
RANGE_END == 100
PERCENT == 100
DEFAULT_CONFIDENCE == 99
MAX_CELL_COUNT == 10

\* types.rs: bytes of a cell and of its proof.
CELL_SIZE == 32
PROOF_SIZE == 48
CELL_WITH_PROOF_SIZE == CELL_SIZE + PROOF_SIZE

\* Values of one byte.
BYTE_MOD == 256

\* otlp.rs: Duration::from_secs(10), the time between two dispatches.
DISPATCH_SECS == 10

\* from_str_radix(s, 16) and {:02x}: the base of the digits of a byte.
HEX_RADIX == 16

\* The values of a u16: the casts `as u16` of generate_random_cells.
U16_MOD == 65536

(***************************************************************************)
(* Generic helpers.                                                        *)
(***************************************************************************)
Range(s) == {s[i] : i \in 1..Len(s)}

\* All bijections of 1..n onto itself.
Bijections(n) == {f \in [1..n -> 1..n] : \A i, j \in 1..n : f[i] = f[j] => i = j}

\* All rearrangements of the sequence s.
Perms(s) == {[i \in 1..Len(s) |-> s[f[i]]] : f \in Bijections(Len(s))}

SeqsUpTo(S, n) == UNION {[1..k -> S] : k \in 0..n}

VARIABLES
    \* ---- verify_proof (proof.rs) ----
    cells,          \* the batch: a sequence of cells
    commitmentLen,  \* commitment.len(), in bytes
    vpc,            \* where verify_proof is: "submit", "collect", "returned"
    submitted,      \* cells the for loop has handed to the pool so far
    jobQueue,       \* the pool's queue: cell indices submitted, not yet started
    running,        \* cell indices whose closure a pool thread is executing
    panicked,       \* cell indices whose closure panicked before its send
    chan,           \* messages sent on tx and not yet received
    received,       \* messages rx.iter().take(jobs) has yielded so far
    senders,        \* live Sender handles: tx and its clones
    result,         \* the count verify_proof returned
    phase,          \* 1: the first call, 2: a call on the same cells in another order
    prevResult,     \* the count the first call returned
    \* ---- connect_to_the_full_node (rpc.rs) ----
    full_nodes,     \* the configured endpoints, duplicates allowed
    last_full_node, \* the endpoint used last, or None
    cpc,            \* where the call is: "start", "open", "sys", "rt", "match", "ok", "err"
    candidates,     \* what shuffle_full_nodes returned
    idx,            \* index in candidates of the endpoint being tried
    net,            \* how each endpoint behaves during this call, once observed
    attempts,       \* one entry per build_client call: the endpoint and how it ended
    connected,      \* the endpoint returned with Ok, or None
    \* ---- Version::matches (rpc.rs) ----
    mSelf,          \* self
    mOther,         \* other
    mpc,            \* "call" before the two calls, "done" after
    mResult,        \* [ab |-> self.matches(other), ba |-> other.matches(self)]
    \* ---- cell_count_for_confidence (rpc.rs) ----
    confA,          \* a confidence, in units of 1/ConfScale percent
    confB,          \* another one, not below confA
    fpc,            \* "call" before the two calls, "done" after
    countA,         \* cell_count_for_confidence(confA)
    countB,         \* cell_count_for_confidence(confB)
    \* ---- generate_random_cells (rpc.rs) ----
    gDims,          \* dimensions: [rows, cols] of the original matrix
    gCellCount,     \* cell_count
    gCount,         \* count
    indices,        \* the HashSet of positions
    gpc,            \* "loop" while the while loop runs, "done" after the return
    gOut,           \* the Vec returned
    \* ---- get_kate_proof (rpc.rs) ----
    kPositions,     \* positions
    kReply,         \* what the kate_queryProof request gave: [ok, bytes]
    kResult,        \* what get_kate_proof returned: [ok, cells]
    kpc,            \* "request" before the call returns, "returned" after
    \* ---- the per-block pipeline ----
    pPositions,     \* the positions sampled
    pCommitmentLen, \* the block's commitment.len(), in bytes
    pCells,         \* the cells fetched
    pVerdicts,      \* per cell fetched, whether the proof verifies
    pVerified,      \* the count verify_proof returned
    pConfidence,    \* the confidence reported, a fraction [num, den]
    ppc,            \* "Sampling", "Fetching", "Verifying", "Scored", "Failed"
    \* ---- impl From<Header> for ClientMsg (types.rs) ----
    header,         \* the Header converted
    hMsg,           \* the outcome: a ClientMsg, or a panic
    hpc,            \* "convert" before from() returns, "converted" after
    \* ---- run (maintenance.rs) ----
    mReceived,      \* block numbers received, in order
    mCurrent,       \* block_num of the block being processed
    mProcessed,     \* block numbers process_block was called with, in order
    mErrors,        \* errors of recv and of process_block so far
    mShutdowns,     \* calls of shutdown.trigger_shutdown
    runpc,          \* "recv", "process" or "stopped" (after break)
    \* ---- Metrics (telemetry/otlp.rs) ----
    gauge_averages_u64, \* name -> [avg, count]
    last_recorded,  \* Option<Instant>
    now,            \* Instant::now(), in seconds after initialize
    tRecorded,      \* the record_u64 calls so far: [name, value], in order
    tDispatched,    \* the callbacks registered with the meter: [name, value]
    tLastDispatch,  \* when the last callback was registered (0: the start)
    tLateCalls,     \* calls made 10 s or more after tLastDispatch
    tpc,            \* "running" once initialize has returned
    \* ---- Event (types.rs) ----
    ev,             \* the Event value
    evText,         \* its Display output
    evParsed,       \* what from_str gives for the text: [ok, event]
    epc             \* "display", "parse", "done"

verifyVars == <<cells, commitmentLen, vpc, submitted, jobQueue, running,
                panicked, chan, received, senders, result, phase, prevResult>>

connectVars == <<full_nodes, last_full_node, cpc, candidates, idx, net, attempts,
                 connected>>

matchVars == <<mSelf, mOther, mpc, mResult>>

confVars == <<confA, confB, fpc, countA, countB>>

sampleVars == <<gDims, gCellCount, gCount, indices, gpc, gOut>>

fetchVars == <<kPositions, kReply, kResult, kpc>>

pipelineVars ==
    <<pPositions, pCommitmentLen, pCells, pVerdicts, pVerified, pConfidence, ppc>>

headerVars == <<header, hMsg, hpc>>

maintVars == <<mReceived, mCurrent, mProcessed, mErrors, mShutdowns, runpc>>

telemetryVars == <<gauge_averages_u64, last_recorded, now, tRecorded, tDispatched,
                  tLastDispatch, tLateCalls, tpc>>

eventVars == <<ev, evText, evParsed, epc>>

vars ==
    <<verifyVars, connectVars, matchVars, confVars,
      sampleVars, fetchVars, pipelineVars, headerVars, maintVars, telemetryVars, eventVars>>

\* What each component leaves alone.
otherThanVerify ==
    <<connectVars, matchVars, confVars, sampleVars, fetchVars,
      pipelineVars, headerVars, maintVars, telemetryVars, eventVars>>
otherThanConnect ==
    <<verifyVars, matchVars, confVars, sampleVars, fetchVars,
      pipelineVars, headerVars, maintVars, telemetryVars, eventVars>>
otherThanMatch ==
    <<verifyVars, connectVars, confVars, sampleVars, fetchVars,
      pipelineVars, headerVars, maintVars, telemetryVars, eventVars>>
otherThanConf ==
    <<verifyVars, connectVars, matchVars, sampleVars, fetchVars,
      pipelineVars, headerVars, maintVars, telemetryVars, eventVars>>
otherThanSample ==
    <<verifyVars, connectVars, matchVars, confVars, fetchVars,
      pipelineVars, headerVars, maintVars, telemetryVars, eventVars>>
otherThanFetch ==
    <<verifyVars, connectVars, matchVars, confVars, sampleVars,
      pipelineVars, headerVars, maintVars, telemetryVars, eventVars>>
otherThanPipeline ==
    <<verifyVars, connectVars, matchVars, confVars, sampleVars,
      fetchVars, headerVars, maintVars, telemetryVars, eventVars>>
otherThanHeader ==
    <<verifyVars, connectVars, matchVars, confVars, sampleVars,
      fetchVars, pipelineVars, maintVars, telemetryVars, eventVars>>
otherThanMaint ==
    <<verifyVars, connectVars, matchVars, confVars, sampleVars,
      fetchVars, pipelineVars, headerVars, telemetryVars, eventVars>>
otherThanTelemetry ==
    <<verifyVars, connectVars, matchVars, confVars, sampleVars,
      fetchVars, pipelineVars, headerVars, maintVars, eventVars>>
otherThanEvent ==
    <<verifyVars, connectVars, matchVars, confVars, sampleVars,
      fetchVars, pipelineVars, headerVars, maintVars, telemetryVars>>

(***************************************************************************)
(* proof.rs: the batch.  A cell is its position's row and the verdict the  *)
(* verification primitive gives on (col, content, commitment slice): the   *)
(* primitive is an external library, so its verdict is an input.           *)
(***************************************************************************)
Cell == [row : 0..MaxRow, proofOk : BOOLEAN]

\* Commitment lengths: whole rows, and one buffer cut short inside a row.
CommitmentLens ==
    {COMMITMENT_SIZE * k : k \in 0..(MaxRow + 1)} \cup {COMMITMENT_SIZE * (MaxRow + 1) - 1}

\* A total order on cells, to name one arrangement of each batch.
CellKey(c) == 2 * c.row + (IF c.proofOk THEN 1 ELSE 0)

IsSorted(s) == \A i \in 1..(Len(s) - 1) : CellKey(s[i]) <= CellKey(s[i + 1])

\* &commitment[row * 48..(row + 1) * 48] panics when the buffer is shorter.
SliceInBounds(row, len) == (row + 1) * COMMITMENT_SIZE <= len

\* kc_verify_proof_wrapper: Ok(_) => true, Err(error) => false.
WrapperCountsErrAsTrue(primitiveOk) == TRUE
kc_verify_proof_wrapper(primitiveOk) == IF primitiveOk THEN TRUE ELSE FALSE

\* filter(|&v| v).count() over the messages yielded.
RECURSIVE CountLeadingTrue(_)
CountLeadingTrue(msgs) ==
    IF msgs = <<>> \/ ~Head(msgs).v THEN 0 ELSE 1 + CountLeadingTrue(Tail(msgs))
CountEvery(msgs) == Len(msgs)
CountTrue(msgs) == Cardinality({i \in 1..Len(msgs) : msgs[i].v})

\* tx itself is not dropped between the loop and the collection: it lives
\* to the end of verify_proof.
SendersAfterLoopDropTx(s) == s - 1
SendersAfterLoop(s) == s

\* jobs = cells.len(): how many messages take(jobs) asks for.
Jobs(batch) == Len(batch)

\* verify_proof before it is called: nothing submitted, nothing returned.
IdleVerify ==
    /\ cells = <<>>
    /\ commitmentLen = 0
    /\ vpc = "idle"
    /\ submitted = 0
    /\ jobQueue = <<>>
    /\ running = {}
    /\ panicked = {}
    /\ chan = <<>>
    /\ received = <<>>
    /\ senders = 0
    /\ result = 0
    /\ phase = 0
    /\ prevResult = 0

\* The first call takes each batch in one arrangement; CallAgain hands the
\* same cells over in every other arrangement.
StartVerify ==
    /\ cells \in {s \in SeqsUpTo(Cell, MaxCells) : IsSorted(s)}
    /\ commitmentLen \in CommitmentLens
    /\ vpc = "submit"
    /\ submitted = 0
    /\ jobQueue = <<>>
    /\ running = {}
    /\ panicked = {}
    /\ chan = <<>>
    /\ received = <<>>
    /\ senders = 1
    /\ result = 0
    /\ phase = 1
    /\ prevResult = 0

\* One turn of `for cell in cells.iter().cloned()`: clone tx, pool.execute.
Submit ==
    /\ vpc = "submit"
    /\ submitted < Len(cells)
    /\ submitted' = submitted + 1
    /\ jobQueue' = Append(jobQueue, submitted + 1)
    /\ senders' = senders + 1
    /\ UNCHANGED <<cells, commitmentLen, vpc, running, panicked, chan, received,
                   result, phase, prevResult>>
    /\ UNCHANGED otherThanVerify

\* The for loop ends; verify_proof goes on to rx.iter().take(jobs).
LoopDone ==
    /\ vpc = "submit"
    /\ submitted = Len(cells)
    /\ vpc' = "collect"
    /\ senders' = SendersAfterLoop(senders)
    /\ UNCHANGED <<cells, commitmentLen, submitted, jobQueue, running, panicked,
                   chan, received, result, phase, prevResult>>
    /\ UNCHANGED otherThanVerify

\* An idle thread of the pool takes the oldest queued closure.
WorkerStart ==
    /\ jobQueue # <<>>
    /\ Cardinality(running) < NumCpus
    /\ running' = running \cup {Head(jobQueue)}
    /\ jobQueue' = Tail(jobQueue)
    /\ UNCHANGED <<cells, commitmentLen, vpc, submitted, panicked, chan, received,
                   senders, result, phase, prevResult>>
    /\ UNCHANGED otherThanVerify

\* The closure: slice the commitment, verify, tx.send.  The slice is taken
\* while the arguments of the send are evaluated, so an out-of-range slice
\* panics before anything is sent; the closure's tx clone is dropped either
\* way and the pool replaces the thread.  A send to a dropped receiver only
\* logs the error.
WorkerRun(i) ==
    /\ i \in running
    /\ running' = running \ {i}
    /\ senders' = senders - 1
    /\ IF SliceInBounds(cells[i].row, commitmentLen)
       THEN /\ chan' = IF vpc = "returned" THEN chan
                       ELSE Append(chan, [cell |-> i,
                                          v |-> kc_verify_proof_wrapper(cells[i].proofOk)])
            /\ UNCHANGED panicked
       ELSE /\ panicked' = panicked \cup {i}
            /\ UNCHANGED chan
    /\ UNCHANGED <<cells, commitmentLen, vpc, submitted, jobQueue, received,
                   result, phase, prevResult>>
    /\ UNCHANGED otherThanVerify

\* rx.iter().take(jobs): one more message is yielded.
Collect ==
    /\ vpc = "collect"
    /\ Len(received) < Jobs(cells)
    /\ chan # <<>>
    /\ received' = Append(received, Head(chan))
    /\ chan' = Tail(chan)
    /\ UNCHANGED <<cells, commitmentLen, vpc, submitted, jobQueue, running,
                   panicked, senders, result, phase, prevResult>>
    /\ UNCHANGED otherThanVerify

\* The iterator ends: take(jobs) has yielded jobs messages, or recv failed
\* because the channel is empty and every Sender is gone.  verify_proof
\* returns the count and drops tx and rx.
Return ==
    /\ vpc = "collect"
    /\ \/ Len(received) >= Jobs(cells)
       \/ (chan = <<>> /\ senders = 0)
    /\ vpc' = "returned"
    /\ result' = CountTrue(received)
    /\ senders' = IF senders > 0 THEN senders - 1 ELSE 0
    /\ chan' = <<>>
    /\ UNCHANGED <<cells, commitmentLen, submitted, jobQueue, running, panicked,
                   received, phase, prevResult>>
    /\ UNCHANGED otherThanVerify

\* The caller verifies the same cells again, handed over in another order.
CallAgain ==
    /\ vpc = "returned"
    /\ phase = 1
    /\ jobQueue = <<>> /\ running = {}
    /\ \E p \in Perms(cells) : cells' = p
    /\ phase' = 2
    /\ prevResult' = result
    /\ vpc' = "submit"
    /\ submitted' = 0
    /\ panicked' = {}
    /\ chan' = <<>>
    /\ received' = <<>>
    /\ senders' = 1
    /\ result' = 0
    /\ UNCHANGED <<commitmentLen, jobQueue, running>>
    /\ UNCHANGED otherThanVerify

(***************************************************************************)
(* rpc.rs: the node connection manager.                                    *)
(***************************************************************************)
\* Endpoint addresses; None is Option::None.
Addrs == 1..NumAddrs
None == 0

\* The Version the caller expects, and the Versions a node may report.
ExpectedVersion == [version |-> <<1, 2>>, spec_name |-> "avail", spec_version |-> 5]
NodeVersions ==
    { [version |-> <<1, 2, 3>>, spec_name |-> "avail", spec_version |-> 5],
      [version |-> <<1, 3>>, spec_name |-> "avail", spec_version |-> 5],
      [version |-> <<1, 2>>, spec_name |-> "avail", spec_version |-> 6] }

\* How an endpoint answers during one call: whether build_client,
\* system_version and state_getRuntimeVersion succeed, and the Version the
\* two queries add up to.  known is FALSE until the call has tried it.
AnyVersion == CHOOSE v \in NodeVersions : TRUE
Unobserved == [known |-> FALSE, open |-> FALSE, sysOk |-> FALSE, rtOk |-> FALSE,
               ver |-> AnyVersion]
Behaviours ==
    { [known |-> TRUE, open |-> FALSE, sysOk |-> FALSE, rtOk |-> FALSE, ver |-> AnyVersion],
      [known |-> TRUE, open |-> TRUE, sysOk |-> FALSE, rtOk |-> FALSE, ver |-> AnyVersion],
      [known |-> TRUE, open |-> TRUE, sysOk |-> TRUE, rtOk |-> FALSE, ver |-> AnyVersion] }
    \cup { [known |-> TRUE, open |-> TRUE, sysOk |-> TRUE, rtOk |-> TRUE, ver |-> v] :
             v \in NodeVersions }

\* str::starts_with.
StartsWith(s, prefix) ==
    /\ Len(prefix) <= Len(s)
    /\ SubSeq(s, 1, Len(prefix)) = prefix

\* Version::matches.
MatchesAnyVersion(self, other) == TRUE
MatchesOneWay(self, other) ==
    /\ StartsWith(self.version, other.version)
    /\ self.spec_name = other.spec_name
    /\ self.spec_version = other.spec_version
Matches(self, other) ==
    /\ (StartsWith(self.version, other.version) \/ StartsWith(other.version, self.version))
    /\ self.spec_name = other.spec_name
    /\ self.spec_version = other.spec_version

\* candidates.retain(|node| Some(node) != last_full_node.as_ref()).
RetainKeepsAll(nodes, last) == nodes
Retain(nodes, last) == SelectSeq(nodes, LAMBDA node : node # last)

\* The push of lines 145-147: last_full_node goes to the end when it is Some
\* and retain removed something.
PushLastAlways(nodes, retained, last) ==
    IF last # None THEN Append(retained, last) ELSE retained
PushLast(nodes, retained, last) ==
    IF last # None /\ Len(nodes) # Len(retained) THEN Append(retained, last) ELSE retained

\* shuffle_full_nodes: every list the function can return, one for each
\* outcome of candidates.shuffle(&mut thread_rng()).
ShuffleAfterPush(nodes, last) ==
    Perms(PushLast(nodes, Retain(nodes, last), last))
shuffle_full_nodes(nodes, last) ==
    {PushLast(nodes, shuffled, last) : shuffled \in Perms(Retain(nodes, last))}

\* What the loop does when a step at candidate i fails: `continue`.
AbortOnFailure(i) == [pc |-> "err", idx |-> i]
RetryOnFailure(i) == [pc |-> "open", idx |-> i]
OnFailure(i) == [pc |-> "open", idx |-> i + 1]

\* connect_to_the_full_node before it is called.
IdleConnect ==
    /\ full_nodes = <<>>
    /\ last_full_node = None
    /\ cpc = "idle"
    /\ candidates = <<>>
    /\ idx = 0
    /\ net = [a \in Addrs |-> Unobserved]
    /\ attempts = <<>>
    /\ connected = None

\* The code only compares addresses for equality, so of the lists that differ
\* by a renaming of addresses one is kept: the one whose addresses first
\* occur in increasing order (<<1, 2, 1>> stands for <<3, 1, 3>>).
FirstOccurrencesAscend(s) ==
    \A i \in 1..Len(s) : \A a \in 1..(s[i] - 1) : \E j \in 1..(i - 1) : s[j] = a

StartConnect ==
    /\ full_nodes \in {s \in SeqsUpTo(Addrs, MaxNodes) : FirstOccurrencesAscend(s)}
    /\ last_full_node \in Addrs \cup {None}
    /\ cpc = "start"
    /\ candidates = <<>>
    /\ idx = 0
    /\ net = [a \in Addrs |-> Unobserved]
    /\ attempts = <<>>
    /\ connected = None

\* The attempt in progress ends with `outcome`.
Conclude(outcome) ==
    [attempts EXCEPT ![Len(attempts)].outcome = outcome]

\* A step of the current candidate failed: log_warn, then OnFailure.
StepFails(outcome) ==
    /\ attempts' = Conclude(outcome)
    /\ cpc' = OnFailure(idx).pc
    /\ idx' = OnFailure(idx).idx
    /\ UNCHANGED <<full_nodes, last_full_node, candidates, net, connected>>

\* The iterator of line 182 is built: shuffle_full_nodes(full_nodes, last_full_node).
Shuffle ==
    /\ cpc = "start"
    /\ candidates' \in shuffle_full_nodes(full_nodes, last_full_node)
    /\ idx' = 1
    /\ cpc' = "open"
    /\ UNCHANGED <<full_nodes, last_full_node, net, attempts, connected>>
    /\ UNCHANGED otherThanConnect

\* build_client(full_node_ws).await on the next candidate.  The endpoint's
\* behaviour is fixed for the call the first time the call observes it.
BuildClient ==
    /\ cpc = "open"
    /\ idx <= Len(candidates)
    /\ Len(attempts) < MaxAttempts
    /\ LET node == candidates[idx] IN
       \E b \in Behaviours :
          /\ net[node].known => b = net[node]
          /\ net' = [net EXCEPT ![node] = b]
          /\ attempts' = Append(attempts, [node |-> node, outcome |->
                                 IF b.open THEN "pending" ELSE "open_failed"])
          /\ IF b.open
             THEN cpc' = "sys" /\ idx' = idx
             ELSE cpc' = OnFailure(idx).pc /\ idx' = OnFailure(idx).idx
    /\ UNCHANGED <<full_nodes, last_full_node, candidates, connected>>
    /\ UNCHANGED otherThanConnect

\* get_system_version(&client).await.
GetSystemVersion ==
    /\ cpc = "sys"
    /\ IF net[candidates[idx]].sysOk
       THEN /\ cpc' = "rt"
            /\ UNCHANGED <<full_nodes, last_full_node, candidates, idx, net, attempts,
                           connected>>
       ELSE StepFails("sys_failed")
    /\ UNCHANGED otherThanConnect

\* get_runtime_version(&client).await.
GetRuntimeVersion ==
    /\ cpc = "rt"
    /\ IF net[candidates[idx]].rtOk
       THEN /\ cpc' = "match"
            /\ UNCHANGED <<full_nodes, last_full_node, candidates, idx, net, attempts,
                           connected>>
       ELSE StepFails("rt_failed")
    /\ UNCHANGED otherThanConnect

\* if !expected_version.matches(&version) { continue } ; return Ok(..).
CheckVersion ==
    /\ cpc = "match"
    /\ IF Matches(ExpectedVersion, net[candidates[idx]].ver)
       THEN /\ cpc' = "ok"
            /\ connected' = candidates[idx]
            /\ attempts' = Conclude("accepted")
            /\ UNCHANGED <<full_nodes, last_full_node, candidates, idx, net>>
       ELSE StepFails("mismatch")
    /\ UNCHANGED otherThanConnect

\* The iterator is exhausted: Err(anyhow!("No working nodes")).
Exhausted ==
    /\ cpc = "open"
    /\ idx > Len(candidates)
    /\ cpc' = "err"
    /\ UNCHANGED <<full_nodes, last_full_node, candidates, idx, net, attempts, connected>>
    /\ UNCHANGED otherThanConnect

NextConnect ==
    \/ Shuffle
    \/ BuildClient
    \/ GetSystemVersion
    \/ GetRuntimeVersion
    \/ CheckVersion
    \/ Exhausted

(***************************************************************************)
(* rpc.rs: Version::matches as a function of its two arguments.            *)
(***************************************************************************)
\* Versions: a version string, a spec name and a spec version each.
Versions ==
    [version : SeqsUpTo(1..NumChars, MaxVersionLen),
     spec_name : {"avail", "other"},
     spec_version : {5, 6}]

IdleMatch ==
    /\ mSelf = AnyVersion
    /\ mOther = AnyVersion
    /\ mpc = "idle"
    /\ mResult = [ab |-> FALSE, ba |-> FALSE]

StartMatch ==
    /\ mSelf \in Versions
    /\ mOther \in Versions
    /\ mpc = "call"
    /\ mResult = [ab |-> FALSE, ba |-> FALSE]

\* self.matches(&other), and the same call with the arguments swapped.
CallMatches ==
    /\ mpc = "call"
    /\ mResult' = [ab |-> Matches(mSelf, mOther), ba |-> Matches(mOther, mSelf)]
    /\ mpc' = "done"
    /\ UNCHANGED <<mSelf, mOther>>
    /\ UNCHANGED otherThanMatch

NextMatch == CallMatches

(***************************************************************************)
(* rpc.rs: cell_count_for_confidence.  A confidence is n / ConfScale       *)
(* percent, so 1 - confidence / 100 is the fraction                        *)
(* (PERCENT * ConfScale - n) / (PERCENT * ConfScale), and the f64          *)
(* arithmetic is followed exactly on these fractions.                      *)
(***************************************************************************)
RECURSIVE Pow2(_)
Pow2(k) == IF k = 0 THEN 1 ELSE 2 * Pow2(k - 1)

\* Whole percents from -1 to 101, and the points 100 * (1 - 2^-k) with
\* their two neighbours.
ConfNums ==
    {ConfScale * p : p \in (0 - 1)..(RANGE_END + 1)}
    \cup {RANGE_END * ConfScale - (RANGE_END * ConfScale) \div Pow2(k) + d :
            k \in 1..MaxHalvings, d \in (0 - 1)..1}

\* (-(x.log2())).ceil() as u32 for x = p / q > 0: the least k >= 0 with
\* x * 2^k >= 1; a negative value saturates to 0 in the cast.
RECURSIVE FloorNegLog2(_, _)
FloorNegLog2(p, q) == IF 2 * p > q THEN 0 ELSE 1 + FloorNegLog2(2 * p, q)
RECURSIVE CeilNegLog2(_, _)
CeilNegLog2(p, q) == IF p >= q THEN 0 ELSE 1 + CeilNegLog2(2 * p, q)

\* (50.0..100f64).contains(&confidence).
InRangeNoLowerBound(n) == 0 <= n /\ n < RANGE_END * ConfScale
InRange(n) == RANGE_START * ConfScale <= n /\ n < RANGE_END * ConfScale

\* (-((1f64 - (99f64 / 100f64)).log2())).ceil() as u32.
DefaultCount == CeilNegLog2(PERCENT - DEFAULT_CONFIDENCE, PERCENT)

\* (-((1f64 - (confidence / 100f64)).log2())).ceil() as u32.
FormulaCount(n) == CeilNegLog2(PERCENT * ConfScale - n, PERCENT * ConfScale)

\* if cell_count == 0 || cell_count > 10 { default }.
ClampCountNever(count) == count
ClampCountFromTen(count) ==
    IF count = 0 \/ count >= MAX_CELL_COUNT THEN DefaultCount ELSE count
ClampCount(count) ==
    IF count = 0 \/ count > MAX_CELL_COUNT THEN DefaultCount ELSE count

cell_count_for_confidence(n) ==
    ClampCount(IF ~InRange(n) THEN DefaultCount ELSE FormulaCount(n))

IdleConf ==
    /\ confA = 0
    /\ confB = 0
    /\ fpc = "idle"
    /\ countA = 0
    /\ countB = 0

StartConf ==
    /\ confA \in ConfNums
    /\ confB \in {n \in ConfNums : confA <= n}
    /\ fpc = "call"
    /\ countA = 0
    /\ countB = 0

\* The function is called on both inputs.
CallCellCount ==
    /\ fpc = "call"
    /\ countA' = cell_count_for_confidence(confA)
    /\ countB' = cell_count_for_confidence(confB)
    /\ fpc' = "done"
    /\ UNCHANGED <<confA, confB>>
    /\ UNCHANGED otherThanConf

NextConf == CallCellCount

(***************************************************************************)
(* rpc.rs: generate_random_cells.                                          *)
(***************************************************************************)
\* Dimensions::extended_rows and Dimensions::extended_size: the extended
\* matrix has twice the rows.
extended_rows(d) == 2 * d.rows
extended_size(d) == extended_rows(d) * d.cols

\* A matrix of 256 x 257 extended cells: more cells than a u16 counts.
BigDims == [rows |-> 128, cols |-> 257]

\* The calls followed: small matrices with small and with huge requests,
\* and the big matrix with a request of 2^16.
SampleInputs ==
    ([rows : 1..MaxDimRows, cols : 1..MaxDimCols]
        \X ((0..MaxRequested) \cup {U16_MOD, U16_MOD + 1}))
    \cup ({BigDims} \X {U16_MOD})

\* let count = if max_cells < cell_count.into() { max_cells } else { cell_count.into() }.
EffectiveCountUnclamped(max_cells, cell_count) == cell_count
EffectiveCount(max_cells, cell_count) ==
    IF max_cells < cell_count THEN max_cells ELSE cell_count

\* x as u16.
AsU16(x) == x % U16_MOD

\* while (indices.len() as u16) < count as u16.
LoopRuns(len, count) == AsU16(len) < AsU16(count)

\* indices.into_iter().collect(): the set in the order the HashSet yields it.
OrderingsOf(S) ==
    {s \in [1..Cardinality(S) -> S] : \A i, j \in 1..Cardinality(S) : s[i] = s[j] => i = j}

IdleSample ==
    /\ gDims = [rows |-> 1, cols |-> 1]
    /\ gCellCount = 0
    /\ gCount = 0
    /\ indices = {}
    /\ gpc = "idle"
    /\ gOut = <<>>

StartSample ==
    /\ \E in \in SampleInputs :
          /\ gDims = in[1]
          /\ gCellCount = in[2]
          /\ gCount = EffectiveCount(extended_size(in[1]), in[2])
    /\ indices = {}
    /\ gpc = "loop"
    /\ gOut = <<>>

\* One turn of the loop: a column and a row are drawn, the position inserted.
DrawCell(row, col) ==
    /\ indices' = indices \cup {[row |-> row, col |-> col]}
    /\ UNCHANGED <<gDims, gCellCount, gCount, gpc, gOut>>
    /\ UNCHANGED otherThanSample

DrawSome ==
    /\ gpc = "loop"
    /\ LoopRuns(Cardinality(indices), gCount)
    /\ \E col \in 0..(gDims.cols - 1) : \E row \in 0..(extended_rows(gDims) - 1) :
          DrawCell(row, col)

\* The loop condition fails: the set is collected into the Vec returned.
ReturnCells ==
    /\ gpc = "loop"
    /\ ~LoopRuns(Cardinality(indices), gCount)
    /\ gOut' \in OrderingsOf(indices)
    /\ gpc' = "done"
    /\ UNCHANGED <<gDims, gCellCount, gCount, indices>>
    /\ UNCHANGED otherThanSample

NextSample ==
    \/ DrawSome
    \/ ReturnCells

(***************************************************************************)
(* rpc.rs: get_kate_proof.                                                 *)
(***************************************************************************)
\* Positions of the extended matrix.
Position == [row : 0..MaxRow, col : 0..MaxCol]

\* What generate_random_cells hands over: distinct positions.
PositionLists ==
    {s \in SeqsUpTo(Position, MaxPositions) : \A i, j \in 1..Len(s) : s[i] = s[j] => i = j}

\* Lengths of the byte responses followed: whole chunks, one byte less and
\* one byte more, from no chunk up to one chunk more than any request.
ResponseLens ==
    {l \in {CELL_WITH_PROOF_SIZE * k + d : k \in 0..(MaxPositions + 1), d \in (0 - 1)..1} : l >= 0}

\* The bytes of a response of a given length: every chunk differs from
\* every other one.
ResponseBytes(len) == [k \in 1..len |-> k % BYTE_MOD]

\* What the kate_queryProof request gives: an error, or bytes.
Replies ==
    {[ok |-> FALSE, bytes |-> <<>>]}
        \cup {[ok |-> TRUE, bytes |-> ResponseBytes(l)] : l \in ResponseLens}

\* The j-th chunk of chunks_exact(size).
ChunkSliding(bytes, size, j) == SubSeq(bytes, j, j + size - 1)
Chunk(bytes, size, j) == SubSeq(bytes, (j - 1) * size + 1, j * size)

\* proofs.chunks_exact(size): the whole chunks; a remainder is left out.
chunks_exact(bytes, size) == [j \in 1..(Len(bytes) \div size) |-> Chunk(bytes, size, j)]

\* positions.iter().zip(i).map(..).collect(): as long as the shorter one.
ZipCells(positions, chunks) ==
    [i \in 1..(IF Len(positions) < Len(chunks) THEN Len(positions) ELSE Len(chunks)) |->
        [position |-> positions[i], content |-> chunks[i]]]

\* get_kate_proof: the request's error is returned by `?`; any bytes give Ok.
get_kate_proof(positions, reply) ==
    IF ~reply.ok
    THEN [ok |-> FALSE, cells |-> <<>>]
    ELSE [ok |-> TRUE, cells |-> ZipCells(positions, chunks_exact(reply.bytes, CELL_WITH_PROOF_SIZE))]

NoReply == [ok |-> FALSE, bytes |-> <<>>]
NoResult == [ok |-> FALSE, cells |-> <<>>]

IdleFetch ==
    /\ kPositions = <<>>
    /\ kReply = NoReply
    /\ kResult = NoResult
    /\ kpc = "idle"

StartFetch ==
    /\ kPositions \in PositionLists
    /\ kReply = NoReply
    /\ kResult = NoResult
    /\ kpc = "request"

\* The request is answered and get_kate_proof returns.
CallGetKateProof ==
    /\ kpc = "request"
    /\ \E reply \in Replies :
          /\ kReply' = reply
          /\ kResult' = get_kate_proof(kPositions, reply)
    /\ kpc' = "returned"
    /\ UNCHANGED kPositions
    /\ UNCHANGED otherThanFetch

NextFetch == CallGetKateProof

(***************************************************************************)
(* The per-block pipeline: Sampling -> Fetching -> Verifying -> Scored.    *)
(***************************************************************************)
\* confidence_percent = 100 * (1 - (1/2)^verified_count), as a fraction.
Confidence(verified) ==
    [num |-> PERCENT * (Pow2(verified) - 1), den |-> Pow2(verified)]

\* No confidence reported.
Unscored == [num |-> 0, den |-> 0]

IdlePipeline ==
    /\ pPositions = <<>>
    /\ pCommitmentLen = 0
    /\ pCells = <<>>
    /\ pVerdicts = <<>>
    /\ pVerified = 0
    /\ pConfidence = Unscored
    /\ ppc = "idle"

StartPipeline ==
    /\ pPositions = <<>>
    /\ pCommitmentLen \in CommitmentLens
    /\ pCells = <<>>
    /\ pVerdicts = <<>>
    /\ pVerified = 0
    /\ pConfidence = Unscored
    /\ ppc = "Sampling"

\* Sampling: the positions of this block are drawn.
SamplePositions ==
    /\ ppc = "Sampling"
    /\ pPositions' \in PositionLists
    /\ ppc' = "Fetching"
    /\ UNCHANGED <<pCommitmentLen, pCells, pVerdicts, pVerified, pConfidence>>
    /\ UNCHANGED otherThanPipeline

\* Fetching: get_kate_proof is called; its error fails the block.
FetchCells ==
    /\ ppc = "Fetching"
    /\ \E reply \in Replies :
          LET r == get_kate_proof(pPositions, reply)
          IN  /\ pCells' = r.cells
              /\ ppc' = IF r.ok THEN "Verifying" ELSE "Failed"
    /\ UNCHANGED <<pPositions, pCommitmentLen, pVerdicts, pVerified, pConfidence>>
    /\ UNCHANGED otherThanPipeline

\* Verifying: verify_proof returns the count of the cells whose proof
\* verifies (it returns only when no job panics on its commitment slice),
\* and the count is scored.
VerifyCells ==
    /\ ppc = "Verifying"
    /\ \A i \in 1..Len(pCells) : SliceInBounds(pCells[i].position.row, pCommitmentLen)
    /\ \E oks \in [1..Jobs(pCells) -> BOOLEAN] :
          /\ pVerdicts' = oks
          /\ pVerified' = CountTrue([i \in 1..Jobs(pCells) |-> [v |-> kc_verify_proof_wrapper(oks[i])]])
    /\ pConfidence' = Confidence(pVerified')
    /\ ppc' = "Scored"
    /\ UNCHANGED <<pPositions, pCommitmentLen, pCells>>
    /\ UNCHANGED otherThanPipeline

NextPipeline ==
    \/ SamplePositions
    \/ FetchCells
    \/ VerifyCells

(***************************************************************************)
(* types.rs: impl From<Header> for ClientMsg.                              *)
(***************************************************************************)
\* The u16 values followed: small ones, and those around half the range
\* and at its end.
U16Values ==
    (0..MaxHeaderDim)
        \cup {U16_MOD \div 2 - 1, U16_MOD \div 2, U16_MOD \div 2 + 1, U16_MOD - 1}

\* The headers converted.
Headers ==
    [number : 1..NumHeaderValues,
     rows : U16Values,
     cols : U16Values,
     app_data_lookup : 1..NumHeaderValues,
     commitment : 1..NumHeaderValues]

\* rows * 2 on u16: a product out of range panics in a build with overflow
\* checks and wraps in a build without them.
MulU16(a, b, overflowChecks) ==
    IF a * b < U16_MOD
    THEN [panic |-> FALSE, value |-> a * b]
    ELSE IF overflowChecks
         THEN [panic |-> TRUE, value |-> 0]
         ELSE [panic |-> FALSE, value |-> (a * b) % U16_MOD]

\* No ClientMsg: from() panicked, or has not returned.
NoMsg == [panic |-> TRUE]

\* ClientMsg::from(header).
FromHeader(h, overflowChecks) ==
    LET doubled == MulU16(h.rows, 2, overflowChecks)
    IN  IF doubled.panic
        THEN NoMsg
        ELSE [panic |-> FALSE,
              number |-> h.number,
              dimensions |-> [rows |-> doubled.value, cols |-> h.cols],
              lookup |-> h.app_data_lookup,
              commitment |-> h.commitment]

IdleHeader ==
    /\ header = [number |-> 1, rows |-> 0, cols |-> 0, app_data_lookup |-> 1, commitment |-> 1]
    /\ hMsg = NoMsg
    /\ hpc = "idle"

StartHeader ==
    /\ header \in Headers
    /\ hMsg = NoMsg
    /\ hpc = "convert"

\* from() runs, in a build with or without overflow checks.
ConvertHeader ==
    /\ hpc = "convert"
    /\ \E overflowChecks \in BOOLEAN : hMsg' = FromHeader(header, overflowChecks)
    /\ hpc' = "converted"
    /\ UNCHANGED header
    /\ UNCHANGED otherThanHeader

NextHeader == ConvertHeader

(***************************************************************************)
(* maintenance.rs: run and process_block.                                  *)
(***************************************************************************)
\* What block_receiver.recv() gives: a verified block, or a RecvError.
RecvOutcomes ==
    {[ok |-> TRUE, block_num |-> b, error |-> "none"] : b \in 1..NumBlocks}
        \cup {[ok |-> FALSE, block_num |-> 0, error |-> e] : e \in {"Closed", "Lagged"}}

\* The calls of process_block that may fail: each is followed by `?`.
ProcessFailures ==
    {"none", "shrink_kademlia_map", "count_dht_entries", "record_peers", "record_health"}

\* process_block: Ok(()) unless one of its calls fails.
process_block(failure) == [ok |-> failure = "none", error |-> failure]

\* if let Err(error) = result.
NeverErr(res) == FALSE
IsErr(res) == ~res.ok

IdleMaint ==
    /\ mReceived = <<>>
    /\ mCurrent = 0
    /\ mProcessed = <<>>
    /\ mErrors = <<>>
    /\ mShutdowns = 0
    /\ runpc = "idle"

StartMaint ==
    /\ mReceived = <<>>
    /\ mCurrent = 0
    /\ mProcessed = <<>>
    /\ mErrors = <<>>
    /\ mShutdowns = 0
    /\ runpc = "recv"

\* The end of one turn of the loop: an error triggers shutdown and breaks.
EndOfTurn(res) ==
    /\ mErrors' = IF res.ok THEN mErrors ELSE Append(mErrors, res.error)
    /\ IF IsErr(res)
       THEN /\ mShutdowns' = mShutdowns + 1
            /\ runpc' = "stopped"
       ELSE /\ mShutdowns' = mShutdowns
            /\ runpc' = "recv"

\* block_receiver.recv().await returns.
Recv ==
    /\ runpc = "recv"
    /\ Len(mReceived) + Len(mErrors) < MaxIterations
    /\ \E r \in RecvOutcomes :
          IF r.ok
          THEN /\ mReceived' = Append(mReceived, r.block_num)
               /\ mCurrent' = r.block_num
               /\ runpc' = "process"
               /\ UNCHANGED <<mErrors, mShutdowns>>
          ELSE /\ EndOfTurn([ok |-> FALSE, error |-> r.error])
               /\ UNCHANGED <<mReceived, mCurrent>>
    /\ UNCHANGED mProcessed
    /\ UNCHANGED otherThanMaint

\* process_block(block.block_num, ..).await returns.
Process ==
    /\ runpc = "process"
    /\ mProcessed' = Append(mProcessed, mCurrent)
    /\ \E failure \in ProcessFailures : EndOfTurn(process_block(failure))
    /\ UNCHANGED <<mReceived, mCurrent>>
    /\ UNCHANGED otherThanMaint

NextMaint ==
    \/ Recv
    \/ Process

(***************************************************************************)
(* telemetry/otlp.rs: initialize and Metrics::record_u64.                  *)
(***************************************************************************)
\* Names record() passes to record_u64.
MetricNames == {"up", "connected_peers_num"}

\* Option<Instant>: None, or Some(at).
NoInstant == [some |-> FALSE, at |-> 0]

\* .entry(name).or_insert((0, 0)).
EntryOrInsert(gauges, name) ==
    IF name \in DOMAIN gauges THEN gauges[name] ELSE [avg |-> 0, count |-> 0]

\* *avg = (*avg * *count as u64 + value) / (*count as u64 + 1); *count += 1.
RunningAverage(entry, value) ==
    [avg |-> (entry.avg * entry.count + value) \div (entry.count + 1),
     count |-> entry.count + 1]

\* if let Some(last) = last_recorded { if now.duration_since(last) >= 10 s.
Dispatches(last, instant) == last.some /\ instant - last.at >= DISPATCH_SECS

\* A map with one entry set.
WithEntry(gauges, name, entry) ==
    [n \in DOMAIN gauges \cup {name} |-> IF n = name THEN entry ELSE gauges[n]]

IdleTelemetry ==
    /\ gauge_averages_u64 = <<>>
    /\ last_recorded = NoInstant
    /\ now = 0
    /\ tRecorded = <<>>
    /\ tDispatched = <<>>
    /\ tLastDispatch = 0
    /\ tLateCalls = 0
    /\ tpc = "idle"

\* The state initialize builds: empty maps, last_recorded: None.
StartTelemetry ==
    /\ gauge_averages_u64 = <<>>
    /\ last_recorded = NoInstant
    /\ now = 0
    /\ tRecorded = <<>>
    /\ tDispatched = <<>>
    /\ tLastDispatch = 0
    /\ tLateCalls = 0
    /\ tpc = "running"

\* Time passes.
Tick ==
    /\ tpc = "running"
    /\ now + DISPATCH_SECS <= MaxTime
    /\ now' = now + DISPATCH_SECS
    /\ UNCHANGED <<gauge_averages_u64, last_recorded, tRecorded, tDispatched,
                   tLastDispatch, tLateCalls, tpc>>
    /\ UNCHANGED otherThanTelemetry

\* record_u64(name, value).
RecordU64(name, value) ==
    /\ tpc = "running"
    /\ Len(tRecorded) < MaxRecords
    /\ LET entry == RunningAverage(EntryOrInsert(gauge_averages_u64, name), value)
           dispatch == Dispatches(last_recorded, now)
       IN  /\ gauge_averages_u64' = WithEntry(gauge_averages_u64, name, entry)
           /\ tDispatched' =
                  IF dispatch
                  THEN Append(tDispatched, [name |-> name, value |-> entry.avg])
                  ELSE tDispatched
           /\ tLateCalls' =
                  IF now - tLastDispatch >= DISPATCH_SECS THEN tLateCalls + 1 ELSE tLateCalls
           /\ tLastDispatch' = IF dispatch THEN now ELSE tLastDispatch
    /\ tRecorded' = Append(tRecorded, [name |-> name, value |-> value])
    /\ UNCHANGED <<last_recorded, now, tpc>>
    /\ UNCHANGED otherThanTelemetry

NextTelemetry ==
    \/ Tick
    \/ \E name \in MetricNames, value \in 0..MaxValue : RecordU64(name, value)

(***************************************************************************)
(* types.rs: Event, its Display and its FromStr.                           *)
(*                                                                         *)
(* A text is a sequence of symbols: " " is whitespace, a keyword such as   *)
(* "<synced" and the Display output of a Multiaddr, a PeerId or a Cid are  *)
(* one symbol each (they hold no whitespace and parse back to the value),  *)
(* and the characters of a topic and the hex digits of a block's data are  *)
(* one symbol each.                                                        *)
(***************************************************************************)
Multiaddrs == {"addr1", "addr2"}
PeerIds == {"peer1", "peer2"}
Cids == {"cid1"}

\* Characters of a topic: a letter and a space.
TopicChars == {"a", " "}

\* Bytes of a block's data.
DataBytes == {0, 171}

UnitTags == {"NewListener", "ListenerClosed", "Flushed", "Synced", "Bootstrapped", "Other"}
AddrTags == {"NewListenAddr", "ExpiredListenAddr", "NewExternalAddr", "ExpiredExternalAddr"}
PeerTags == {"Discovered", "Unreachable", "Connected", "Disconnected", "NewInfo"}
TopicTags == {"Subscribed", "Unsubscribed"}

MkEvent(tag, arg, topic, data) == [tag |-> tag, arg |-> arg, topic |-> topic, data |-> data]

\* The values of Event.
Events ==
    {MkEvent(t, "", <<>>, <<>>) : t \in UnitTags}
        \cup {MkEvent(t, a, <<>>, <<>>) : t \in AddrTags, a \in Multiaddrs}
        \cup {MkEvent(t, p, <<>>, <<>>) : t \in PeerTags, p \in PeerIds}
        \cup {MkEvent(t, p, topic, <<>>) :
                 t \in TopicTags, p \in PeerIds, topic \in SeqsUpTo(TopicChars, MaxTopicLen)}
        \cup {MkEvent("Block", c, <<>>, d) : c \in Cids, d \in SeqsUpTo(DataBytes, MaxDataLen)}

\* The keyword Display writes for each variant.
Keyword(tag) ==
    CASE tag = "NewListener" -> "<new-listener"
      [] tag = "NewListenAddr" -> "<new-listen-addr"
      [] tag = "ExpiredListenAddr" -> "<expired-listen-addr"
      [] tag = "ListenerClosed" -> "<listener-closed"
      [] tag = "NewExternalAddr" -> "<new-external-addr"
      [] tag = "ExpiredExternalAddr" -> "<expired-external-addr"
      [] tag = "Discovered" -> "<discovered"
      [] tag = "Unreachable" -> "<unreachable"
      [] tag = "Connected" -> "<connected"
      [] tag = "Disconnected" -> "<disconnected"
      [] tag = "Subscribed" -> "<subscribed"
      [] tag = "Unsubscribed" -> "<unsubscribed"
      [] tag = "Block" -> "<block"
      [] tag = "Flushed" -> "<flushed"
      [] tag = "Synced" -> "<synced"
      [] tag = "Bootstrapped" -> "<bootstrapped"
      [] tag = "NewInfo" -> "<newinfo"
      [] tag = "Other" -> "<other"

\* The keywords from_str has an arm for: every one but "<other".
ParsedTags == (UnitTags \ {"Other"}) \cup AddrTags \cup PeerTags \cup TopicTags \cup {"Block"}

HexChars == <<"0", "1", "2", "3", "4", "5", "6", "7", "8", "9", "a", "b", "c", "d", "e", "f">>

\* write!(f, "{:02x}", byte).
HexOf(byte) == <<HexChars[(byte \div HEX_RADIX) + 1], HexChars[(byte % HEX_RADIX) + 1]>>

RECURSIVE HexOfAll(_)
HexOfAll(bytes) == IF bytes = <<>> THEN <<>> ELSE HexOf(Head(bytes)) \o HexOfAll(Tail(bytes))

\* impl Display for Event.
Display(e) ==
    IF e.tag \in UnitTags THEN <<Keyword(e.tag)>>
    ELSE IF e.tag \in AddrTags \cup PeerTags THEN <<Keyword(e.tag), " ", e.arg>>
    ELSE IF e.tag \in TopicTags THEN <<Keyword(e.tag), " ", e.arg, " ">> \o e.topic
    ELSE <<Keyword(e.tag), " ", e.arg, " ">> \o HexOfAll(e.data)

\* s.split_whitespace(): the maximal runs of symbols other than " ".
RECURSIVE SplitWhitespace(_, _, _)
SplitWhitespace(txt, cur, acc) ==
    IF txt = <<>>
    THEN IF cur = <<>> THEN acc ELSE Append(acc, cur)
    ELSE IF Head(txt) = " "
         THEN SplitWhitespace(Tail(txt), <<>>, IF cur = <<>> THEN acc ELSE Append(acc, cur))
         ELSE SplitWhitespace(Tail(txt), Append(cur, Head(txt)), acc)

IsHex(c) == \E i \in 1..HEX_RADIX : HexChars[i] = c
DigitValue(c) == (CHOOSE i \in 1..HEX_RADIX : HexChars[i] = c) - 1

\* for chunk in str_data.as_bytes().chunks(2): u8::from_str_radix(s, 16).
RECURSIVE ParseHex(_)
ParseHex(token) ==
    IF token = <<>> THEN <<>>
    ELSE IF Len(token) = 1 THEN <<DigitValue(token[1])>>
    ELSE <<HEX_RADIX * DigitValue(token[1]) + DigitValue(token[2])>>
             \o ParseHex(SubSeq(token, 3, Len(token)))

ParseError == [ok |-> FALSE, event |-> MkEvent("", "", <<>>, <<>>)]
Parsed(e) == [ok |-> TRUE, event |-> e]

\* The variant whose keyword a token is, "" when there is none.
TagOf(token) ==
    IF \E t \in ParsedTags : token = <<Keyword(t)>>
    THEN CHOOSE t \in ParsedTags : token = <<Keyword(t)>>
    ELSE ""

\* parts.next().context(..)?.parse()? for a Multiaddr, a PeerId or a Cid.
ParsesAs(parts, i, values) == Len(parts) >= i /\ \E v \in values : parts[i] = <<v>>

\* impl FromStr for Event.
FromStr(txt) ==
    LET parts == SplitWhitespace(txt, <<>>, <<>>)
        tag == IF parts = <<>> THEN "" ELSE TagOf(parts[1])
    IN  IF tag = "" THEN ParseError
        ELSE IF tag \in UnitTags THEN Parsed(MkEvent(tag, "", <<>>, <<>>))
        ELSE IF tag \in AddrTags
             THEN IF ParsesAs(parts, 2, Multiaddrs)
                  THEN Parsed(MkEvent(tag, parts[2][1], <<>>, <<>>))
                  ELSE ParseError
        ELSE IF tag \in PeerTags
             THEN IF ParsesAs(parts, 2, PeerIds)
                  THEN Parsed(MkEvent(tag, parts[2][1], <<>>, <<>>))
                  ELSE ParseError
        ELSE IF tag \in TopicTags
             THEN IF ParsesAs(parts, 2, PeerIds) /\ Len(parts) >= 3
                  THEN Parsed(MkEvent(tag, parts[2][1], parts[3], <<>>))
                  ELSE ParseError
        ELSE IF ParsesAs(parts, 2, Cids) /\ Len(parts) >= 3
                  /\ \A k \in 1..Len(parts[3]) : IsHex(parts[3][k])
             THEN Parsed(MkEvent(tag, parts[2][1], <<>>, ParseHex(parts[3])))
             ELSE ParseError

IdleEvent ==
    /\ ev = MkEvent("Synced", "", <<>>, <<>>)
    /\ evText = <<>>
    /\ evParsed = ParseError
    /\ epc = "idle"

StartEvent ==
    /\ ev \in Events
    /\ evText = <<>>
    /\ evParsed = ParseError
    /\ epc = "display"

\* The event is written: to_string().
WriteEvent ==
    /\ epc = "display"
    /\ evText' = Display(ev)
    /\ epc' = "parse"
    /\ UNCHANGED <<ev, evParsed>>
    /\ UNCHANGED otherThanEvent

\* The text is parsed: parse::<Event>().
ParseEvent ==
    /\ epc = "parse"
    /\ evParsed' = FromStr(evText)
    /\ epc' = "done"
    /\ UNCHANGED <<ev, evText>>
    /\ UNCHANGED otherThanEvent

NextEvent ==
    \/ WriteEvent
    \/ ParseEvent

(***************************************************************************)
(* Specifications.                                                         *)
(***************************************************************************)
NextVerify ==
    \/ Submit
    \/ LoopDone
    \/ WorkerStart
    \/ \E i \in 1..MaxCells : WorkerRun(i)
    \/ Collect
    \/ Return
    \/ CallAgain

InitVerify ==
    StartVerify /\ IdleConnect /\ IdleMatch /\ IdleConf /\ IdleSample /\ IdleFetch
        /\ IdlePipeline /\ IdleHeader /\ IdleMaint /\ IdleTelemetry /\ IdleEvent

InitConnect ==
    StartConnect /\ IdleVerify /\ IdleMatch /\ IdleConf /\ IdleSample /\ IdleFetch
        /\ IdlePipeline /\ IdleHeader /\ IdleMaint /\ IdleTelemetry /\ IdleEvent

InitMatch ==
    StartMatch /\ IdleVerify /\ IdleConnect /\ IdleConf /\ IdleSample /\ IdleFetch
        /\ IdlePipeline /\ IdleHeader /\ IdleMaint /\ IdleTelemetry /\ IdleEvent

InitConf ==
    StartConf /\ IdleVerify /\ IdleConnect /\ IdleMatch /\ IdleSample /\ IdleFetch
        /\ IdlePipeline /\ IdleHeader /\ IdleMaint /\ IdleTelemetry /\ IdleEvent

InitSample ==
    StartSample /\ IdleVerify /\ IdleConnect /\ IdleMatch /\ IdleConf /\ IdleFetch
        /\ IdlePipeline /\ IdleHeader /\ IdleMaint /\ IdleTelemetry /\ IdleEvent

InitMaint ==
    StartMaint /\ IdleVerify /\ IdleConnect /\ IdleMatch /\ IdleConf /\ IdleSample
        /\ IdleFetch /\ IdlePipeline /\ IdleHeader /\ IdleTelemetry /\ IdleEvent

SpecMaint == InitMaint /\ [][NextMaint]_vars

InitTelemetry ==
    StartTelemetry /\ IdleVerify /\ IdleConnect /\ IdleMatch /\ IdleConf /\ IdleSample
        /\ IdleFetch /\ IdlePipeline /\ IdleHeader /\ IdleMaint /\ IdleEvent

SpecTelemetry == InitTelemetry /\ [][NextTelemetry]_vars

InitEvent ==
    StartEvent /\ IdleVerify /\ IdleConnect /\ IdleMatch /\ IdleConf /\ IdleSample
        /\ IdleFetch /\ IdlePipeline /\ IdleHeader /\ IdleMaint /\ IdleTelemetry

SpecEvent == InitEvent /\ [][NextEvent]_vars

SpecVerify == InitVerify /\ [][NextVerify]_vars

\* The pool's threads and the calling thread all keep running.
SpecVerifyFair == SpecVerify /\ WF_vars(NextVerify)

SpecConnect == InitConnect /\ [][NextConnect]_vars

\* Every RPC step returns, with a result or an error.
SpecConnectFair == SpecConnect /\ WF_vars(NextConnect)

SpecMatch == InitMatch /\ [][NextMatch]_vars

SpecConf == InitConf /\ [][NextConf]_vars

InitFetch ==
    StartFetch /\ IdleVerify /\ IdleConnect /\ IdleMatch /\ IdleConf /\ IdleSample
        /\ IdlePipeline /\ IdleHeader /\ IdleMaint /\ IdleTelemetry /\ IdleEvent

InitPipeline ==
    StartPipeline /\ IdleVerify /\ IdleConnect /\ IdleMatch /\ IdleConf /\ IdleSample
        /\ IdleFetch /\ IdleHeader /\ IdleMaint /\ IdleTelemetry /\ IdleEvent

InitHeader ==
    StartHeader /\ IdleVerify /\ IdleConnect /\ IdleMatch /\ IdleConf /\ IdleSample
        /\ IdleFetch /\ IdlePipeline /\ IdleMaint /\ IdleTelemetry /\ IdleEvent

SpecHeader == InitHeader /\ [][NextHeader]_vars

SpecFetch == InitFetch /\ [][NextFetch]_vars

SpecPipeline == InitPipeline /\ [][NextPipeline]_vars

SpecSample == InitSample /\ [][NextSample]_vars

\* Fair random draws: while a position is still missing, a draw that adds
\* one eventually happens; and the function goes on once the loop is over.
SpecSampleFair == SpecSample /\ WF_vars(DrawSome) /\ WF_vars(ReturnCells)

(***************************************************************************)
(* Claims about verify_proof.                                              *)
(***************************************************************************)
\* The cells of the batch the primitive accepts.
AcceptedCells == {i \in 1..Len(cells) : cells[i].proofOk}
RejectedCells == {i \in 1..Len(cells) : ~cells[i].proofOk}

\* C1: the count verify_proof returns is at most len(cells) and is exactly
\* the number of cells whose proof the primitive accepts; a cell the
\* primitive rejects counts as false and leaves the other cells' outcome alone.
C1_CountIsAccepted ==
    vpc = "returned" =>
        /\ result <= Len(cells)
        /\ result = Cardinality(AcceptedCells)

\* A returned batch holding accepted and rejected cells.
C1_Witness ==
    /\ vpc = "returned"
    /\ Cardinality(AcceptedCells) >= 1
    /\ Cardinality(RejectedCells) >= 2
    /\ result = Cardinality(AcceptedCells)

\* C2: verify_proof returns only once the collecting side holds exactly
\* len(cells) results, one for each submitted cell: none lost, none twice,
\* no count of a partial batch.
C2_ExactlyOneResultPerCell ==
    vpc = "returned" =>
        /\ Len(received) = Len(cells)
        /\ \A i \in 1..Len(cells) :
               Cardinality({k \in 1..Len(received) : received[k].cell = i}) = 1

\* A full batch returned whose results arrived out of submission order.
C2_Witness ==
    /\ vpc = "returned"
    /\ Len(cells) = MaxCells
    /\ Len(received) = MaxCells
    /\ received[1].cell # 1
    /\ received[MaxCells].cell # MaxCells

\* C3: verify_proof eventually returns for every batch, also when a unit of
\* work ends without sending its result.
C3_EventuallyReturns == <>(vpc = "returned")

\* C4: the count depends only on the multiset of the cells' outcomes: the
\* same cells in another order, under any scheduling and arrival order,
\* give the count the first call gave.
C4_OrderIndependent ==
    (vpc = "returned" /\ phase = 2) => result = prevResult

\* A second call on a rearranged batch of mixed outcomes, whose results
\* arrived out of submission order.
C4_Witness ==
    /\ vpc = "returned"
    /\ phase = 2
    /\ ~IsSorted(cells)
    /\ AcceptedCells # {} /\ RejectedCells # {}
    /\ Len(received) >= 2
    /\ received[1].cell # 1
    /\ result = prevResult

(***************************************************************************)
(* Claims about connect_to_the_full_node and shuffle_full_nodes.           *)
(***************************************************************************)
\* The matching rule as the data model words it: equal spec_name and
\* spec_version, and one version string a prefix of the other.
IsPrefixOf(p, s) == Len(p) <= Len(s) /\ \A i \in 1..Len(p) : p[i] = s[i]
VersionsAgree(a, b) ==
    /\ a.spec_name = b.spec_name
    /\ a.spec_version = b.spec_version
    /\ (IsPrefixOf(a.version, b.version) \/ IsPrefixOf(b.version, a.version))

\* The endpoint opens, answers both version queries and matches.
Good(b) == b.known /\ b.open /\ b.sysOk /\ b.rtOk /\ VersionsAgree(ExpectedVersion, b.ver)
\* The endpoint was tried and failed a step or did not match.
Failed(b) == b.known /\ ~Good(b)

FailureOutcomes == {"open_failed", "sys_failed", "rt_failed", "mismatch"}
Occurrences(s, x) == Cardinality({i \in 1..Len(s) : s[i] = x})
Distinct(s) == \A i, j \in 1..Len(s) : s[i] = s[j] => i = j
Shuffled == cpc \notin {"idle", "start"}
LastInList == last_full_node # None /\ last_full_node \in Range(full_nodes)

\* C5: on Ok the returned endpoint is the first of the candidate order that
\* opened, answered both version queries and matches the expected Version;
\* every earlier candidate failed one of these; a node whose Version does
\* not match is never returned.
C5_FirstMatchingReturned ==
    cpc = "ok" =>
        /\ idx \in 1..Len(candidates)
        /\ connected = candidates[idx]
        /\ Good(net[connected])
        /\ \A j \in 1..(idx - 1) : Failed(net[candidates[j]])

\* Ok at the third candidate, after a mismatching node and an unreachable one.
C5_Witness ==
    /\ cpc = "ok"
    /\ idx = 3
    /\ attempts[1].outcome = "mismatch"
    /\ attempts[2].outcome = "open_failed"
    /\ attempts[3].outcome = "accepted"

\* C6: a last_used that is in the list is attempted after every other
\* endpoint of the list, and is returned only if every other endpoint
\* failed to connect, failed a version query or did not match.
C6_LastUsedTriedLast ==
    (Shuffled /\ LastInList) =>
        /\ \A k \in 1..Len(attempts) :
              attempts[k].node = last_full_node =>
                  /\ k - 1 = Len(full_nodes) - Occurrences(full_nodes, last_full_node)
                  /\ \A i \in 1..Len(full_nodes) :
                        full_nodes[i] # last_full_node =>
                            \E j \in 1..(k - 1) : attempts[j].node = full_nodes[i]
        /\ (cpc = "ok" /\ connected = last_full_node) =>
              \A i \in 1..Len(full_nodes) :
                  full_nodes[i] # last_full_node => Failed(net[full_nodes[i]])

\* last_used returned from a list of three distinct endpoints.
C6_Witness ==
    /\ cpc = "ok"
    /\ LastInList
    /\ connected = last_full_node
    /\ Len(full_nodes) = 3 /\ Distinct(full_nodes)
    /\ full_nodes[1] = last_full_node
    /\ Len(attempts) = 3

\* A step that ends the attempt in progress with a failure.
FailureStep ==
    /\ attempts' # attempts
    /\ attempts'[Len(attempts')].outcome \in FailureOutcomes

\* C7: a failure at one candidate never ends the call, the next candidate
\* is tried; so the call does not end in the error while an endpoint of the
\* list opens, answers both version queries and matches.
C7_FailureMovesOn ==
    /\ [](cpc = "err" => \A i \in 1..Len(full_nodes) : Failed(net[full_nodes[i]]))
    /\ [][FailureStep => (cpc' = "open" /\ idx' = idx + 1)]_vars

\* Ok at a later candidate after each kind of failure was met on the way
\* (the same endpoint listed twice fails twice).
C7_Witness ==
    /\ cpc = "ok"
    /\ Len(attempts) = 3
    /\ attempts[1].outcome = "sys_failed"
    /\ attempts[2].outcome = "rt_failed"

\* C8: the terminal error comes only after every endpoint of the candidate
\* list was attempted and none accepted; there is no retry, so a call makes
\* at most len(endpoints) connection attempts, and it terminates.
C8_ErrorOnlyWhenExhausted ==
    /\ [](/\ Len(attempts) <= Len(full_nodes)
          /\ cpc = "err" =>
                /\ Len(attempts) = Len(candidates)
                /\ \A k \in 1..Len(attempts) :
                      /\ attempts[k].node = candidates[k]
                      /\ attempts[k].outcome \in FailureOutcomes
                /\ \A i \in 1..Len(full_nodes) :
                      \E k \in 1..Len(attempts) : attempts[k].node = full_nodes[i])
    /\ <>(cpc \in {"ok", "err"})

\* The error after a full list of three endpoints was tried.
C8_Witness ==
    /\ cpc = "err"
    /\ Len(full_nodes) = 3
    /\ Len(attempts) = 3
    /\ attempts[3].outcome = "mismatch"

\* C9: with a last_used that occurs in the list, the list returned ends
\* with last_used and the elements before it are exactly the input
\* endpoints other than last_used (length = input length minus the
\* occurrences of last_used); for k distinct endpoints it has length k and
\* the same set of endpoints.
C9_LastMovedToEnd ==
    (Shuffled /\ LastInList) =>
        LET n == Len(candidates) IN
        /\ n >= 1
        /\ candidates[n] = last_full_node
        /\ n - 1 = Len(full_nodes) - Occurrences(full_nodes, last_full_node)
        /\ \A a \in Addrs \ {last_full_node} :
              Occurrences(candidates, a) = Occurrences(full_nodes, a)
        /\ Occurrences(candidates, last_full_node) = 1
        /\ Distinct(full_nodes) =>
              (n = Len(full_nodes) /\ Range(candidates) = Range(full_nodes))

\* Three distinct endpoints, the first of them last_used, the others swapped.
C9_Witness ==
    /\ Shuffled
    /\ Len(full_nodes) = 3 /\ Distinct(full_nodes)
    /\ last_full_node = full_nodes[1]
    /\ candidates = <<full_nodes[3], full_nodes[2], full_nodes[1]>>

\* C10: with last_used None, or an address that is not in the list, the
\* list returned is a permutation of the whole input: same length, same
\* elements with the same multiplicities, the absent last_used not appended.
C10_PermutationWithoutLast ==
    (Shuffled /\ ~LastInList) =>
        /\ Len(candidates) = Len(full_nodes)
        /\ \A a \in Addrs : Occurrences(candidates, a) = Occurrences(full_nodes, a)

\* An absent last_used and a list that came back in another order.
C10_Witness ==
    /\ Shuffled
    /\ last_full_node # None
    /\ last_full_node \notin Range(full_nodes)
    /\ Len(full_nodes) = 2
    /\ candidates = <<full_nodes[2], full_nodes[1]>>
    /\ candidates # full_nodes

(***************************************************************************)
(* Claims about Version::matches.                                          *)
(***************************************************************************)
\* C11: a matches b exactly when the spec names are equal, the spec
\* versions are equal and one version string is a prefix of the other; the
\* relation is symmetric; "1.2.3" matches an expected "1.2" with equal spec
\* fields and does not when spec_version differs.
C11_MatchesIsPrefixRule ==
    mpc = "done" =>
        /\ mResult.ab = VersionsAgree(mSelf, mOther)
        /\ mResult.ab = mResult.ba
        /\ (mSelf.version = <<1, 2, 1>> /\ mOther.version = <<1, 2>>) =>
              (mResult.ab = (mSelf.spec_name = mOther.spec_name
                             /\ mSelf.spec_version = mOther.spec_version))

\* The longer string on the self side, matched through the second starts_with
\* being tried with the arguments swapped.
C11_Witness ==
    /\ mpc = "done"
    /\ mSelf.version = <<1, 2>>
    /\ mOther.version = <<1, 2, 1>>
    /\ mSelf.spec_name = mOther.spec_name
    /\ mSelf.spec_version = mOther.spec_version
    /\ mResult.ab /\ mResult.ba

(***************************************************************************)
(* Claims about cell_count_for_confidence.                                 *)
(***************************************************************************)
\* (1/2)^k <= 1 - c/100 for the confidence c = n / ConfScale.
HalvesReach(k, n) == 100 * ConfScale <= Pow2(k) * (100 * ConfScale - n)
\* k is the smallest such integer.
SmallestHalving(k, n) == HalvesReach(k, n) /\ \A j \in 0..(k - 1) : ~HalvesReach(j, n)
ClaimInRange(n) == 50 * ConfScale <= n /\ n < 100 * ConfScale
\* The formula value of an input of the range lies in [1, 10].
FormulaWithinTen(n) == \E k \in 1..10 : SmallestHalving(k, n)

\* C16: for a confidence in [50, 100) whose formula value lies in [1, 10]
\* the count is the smallest k with (1/2)^k <= 1 - c/100; 92.0 gives 4 and
\* 99.0 gives 7.
C16_CountIsSmallestHalving ==
    fpc = "done" =>
        /\ (ClaimInRange(confA) /\ FormulaWithinTen(confA)) => SmallestHalving(countA, confA)
        /\ (ClaimInRange(confB) /\ FormulaWithinTen(confB)) => SmallestHalving(countB, confB)
        /\ confA = 92 * ConfScale => countA = 4
        /\ confB = 99 * ConfScale => countB = 7

\* 92.0 and 99.0 computed side by side.
C16_Witness ==
    /\ fpc = "done"
    /\ confA = 92 * ConfScale /\ countA = 4
    /\ confB = 99 * ConfScale /\ countB = 7

\* C17: for every confidence in [50, 100) the count lies in [1, 10].
C17_CountWithinOneToTen ==
    fpc = "done" =>
        /\ ClaimInRange(confA) => countA \in 1..10
        /\ ClaimInRange(confB) => countB \in 1..10

\* An input of the range so close to 100 that its formula value is above 10.
C17_Witness ==
    /\ fpc = "done"
    /\ ClaimInRange(confB)
    /\ ~FormulaWithinTen(confB)
    /\ countB \in 1..10

\* C18 as claimed: non-decreasing on all of [50, 100), the inputs whose
\* formula value exceeds 10 included.
C18_MonotoneOnWholeRange ==
    (fpc = "done" /\ ClaimInRange(confA) /\ ClaimInRange(confB)) => countA <= countB

\* C18 as amended: non-decreasing over the inputs of [50, 100) whose formula
\* value is at most 10.
C18_MonotoneUpToTen ==
    (fpc = "done" /\ ClaimInRange(confA) /\ ClaimInRange(confB)
        /\ FormulaWithinTen(confB)) => countA <= countB

\* Two inputs of the range with formula values 9 and 10.
C18_Witness ==
    /\ fpc = "done"
    /\ ClaimInRange(confA) /\ ClaimInRange(confB)
    /\ FormulaWithinTen(confB)
    /\ countA = 9 /\ countB = 10

\* The input asks for the default: it is outside [50, 100), or its formula
\* value is 0 or above 10.
AsksForDefault(n) == ~ClaimInRange(n) \/ ~FormulaWithinTen(n)

MatrixSize == 2 * gDims.rows * gDims.cols
Smaller(a, b) == IF a < b THEN a ELSE b

\* C14: for every dimension and every requested count the function returns
\* exactly min(n, extended_rows * cols) positions, pairwise distinct, each
\* with row < extended_rows and col < cols; every position exactly once
\* when n is at least the matrix size.
C14_ExactlyMinPositions ==
    gpc = "done" =>
        /\ Len(gOut) = Smaller(gCellCount, MatrixSize)
        /\ \A i, j \in 1..Len(gOut) : gOut[i] = gOut[j] => i = j
        /\ \A i \in 1..Len(gOut) :
              /\ gOut[i].row \in 0..(2 * gDims.rows - 1)
              /\ gOut[i].col \in 0..(gDims.cols - 1)
        /\ gCellCount >= MatrixSize =>
              \A r \in 0..(2 * gDims.rows - 1) : \A c \in 0..(gDims.cols - 1) :
                  \E i \in 1..Len(gOut) : gOut[i] = [row |-> r, col |-> c]

\* C15: the function terminates for every dimension and requested count:
\* the size the loop waits for never exceeds the number of distinct
\* positions, so under fair draws the loop reaches it and exits.
C15_SamplingTerminates ==
    /\ [](gpc = "loop" => AsU16(gCount) <= MatrixSize)
    /\ <>(gpc = "done")

\* A request above the size of the matrix, answered with every position.
C15_Witness ==
    /\ gpc = "done"
    /\ gCellCount = MaxRequested
    /\ MatrixSize < gCellCount
    /\ Len(gOut) = MatrixSize

(***************************************************************************)
(* Claims about get_kate_proof.                                            *)
(***************************************************************************)
ExactLength == Len(kReply.bytes) = CELL_WITH_PROOF_SIZE * Len(kPositions)

\* C12: get_kate_proof returns an error, and no cells, whenever the byte
\* length of the response is not exactly 80 x len(positions): a trailing
\* partial chunk, a response too short and a response too long are all
\* reported as a failure.
C12_ErrorUnlessExactLength ==
    (kpc = "returned" /\ kReply.ok /\ ~ExactLength) =>
        (~kResult.ok /\ kResult.cells = <<>>)

\* C13: when the response carries exactly 80 x n bytes for n positions,
\* get_kate_proof returns n cells in request order; the i-th cell has the
\* i-th position and the i-th 80 bytes of the response as its content.
C13_ChunksPairedInOrder ==
    (kpc = "returned" /\ kReply.ok /\ ExactLength) =>
        /\ kResult.ok
        /\ Len(kResult.cells) = Len(kPositions)
        /\ \A i \in 1..Len(kPositions) :
              /\ kResult.cells[i].position = kPositions[i]
              /\ Len(kResult.cells[i].content) = CELL_WITH_PROOF_SIZE
              /\ \A k \in 1..CELL_WITH_PROOF_SIZE :
                    kResult.cells[i].content[k] =
                        kReply.bytes[CELL_WITH_PROOF_SIZE * (i - 1) + k]

\* An exact response to a request of several positions.
C13_Witness ==
    /\ kpc = "returned"
    /\ kReply.ok
    /\ ExactLength
    /\ Len(kPositions) = MaxPositions
    /\ Len(kResult.cells) = MaxPositions

\* C21: whenever get_kate_proof returns Ok, the number of cells returned
\* equals the number of positions requested.
C21_OkGivesCellPerPosition ==
    (kpc = "returned" /\ kResult.ok) => Len(kResult.cells) = Len(kPositions)

(***************************************************************************)
(* Claims about the pipeline.                                              *)
(***************************************************************************)
Requested == Len(pPositions)

\* Fewer cells fetched than positions asked, or a proof that fails.
Shortfall ==
    \/ Len(pCells) < Len(pPositions)
    \/ \E i \in 1..Len(pVerdicts) : ~pVerdicts[i]

LowerConfidence(a, b) == a.num * b.den < b.num * a.den

C22_RowsDoubledForEveryU16 ==
    hpc = "converted" =>
        /\ ~hMsg.panic
        /\ hMsg.dimensions.rows = 2 * header.rows
        /\ hMsg.dimensions.cols = header.cols
        /\ hMsg.number = header.number
        /\ hMsg.lookup = header.app_data_lookup
        /\ hMsg.commitment = header.commitment

(***************************************************************************)
(* Claims about the maintenance loop.                                      *)
(***************************************************************************)
\* C23: the loop processes received blocks one at a time in receive order;
\* it triggers shutdown exactly once and stops on the first error (of
\* process_block or of the receive), processes no block after that, and
\* neither triggers shutdown nor stops while every receive and every
\* process_block succeeds.
C23_StopsOnFirstError ==
    /\ [](/\ runpc = "process" => mReceived = Append(mProcessed, mCurrent)
          /\ runpc \in {"recv", "stopped"} => mProcessed = mReceived
          /\ Len(mErrors) <= 1
          /\ mErrors # <<>> => (runpc = "stopped" /\ mShutdowns = 1)
          /\ mErrors = <<>> => (runpc # "stopped" /\ mShutdowns = 0))
    /\ [][runpc = "stopped" => UNCHANGED <<mProcessed, mShutdowns, runpc>>]_vars

\* Two blocks were processed and the third receive lagged.
C23_Witness ==
    /\ runpc = "stopped"
    /\ Len(mProcessed) = 2
    /\ mErrors = <<"Lagged">>
    /\ mShutdowns = 1

(***************************************************************************)
(* Claims about the aggregated u64 gauges.                                 *)
(***************************************************************************)
\* The values recorded under a name, in order.
RECURSIVE ValuesOf(_, _)
ValuesOf(name, recorded) ==
    IF recorded = <<>>
    THEN <<>>
    ELSE IF Head(recorded).name = name
         THEN <<Head(recorded).value>> \o ValuesOf(name, Tail(recorded))
         ELSE ValuesOf(name, Tail(recorded))

RECURSIVE SumSeq(_)
SumSeq(s) == IF s = <<>> THEN 0 ELSE Head(s) + SumSeq(Tail(s))

\* C24: after any sequence of record_u64 calls, the entry of a name holds
\* the number of values recorded under it and the floor of their
\* arithmetic mean; names never recorded have no entry.
C24_AverageIsFloorMean ==
    \A name \in MetricNames :
        LET values == ValuesOf(name, tRecorded)
        IN  IF values = <<>>
            THEN name \notin DOMAIN gauge_averages_u64
            ELSE /\ name \in DOMAIN gauge_averages_u64
                 /\ gauge_averages_u64[name].count = Len(values)
                 /\ gauge_averages_u64[name].avg = SumSeq(values) \div Len(values)

\* C25: every record_u64 call made at least 10 seconds after the previous
\* dispatch, or after the start, registers the average with the meter.
C25_LateRecordDispatches == tLateCalls <= Len(tDispatched)

(***************************************************************************)
(* Claims about the text encoding of Event.                                *)
(***************************************************************************)
\* C26: for every Event value, Other and Subscribed/Unsubscribed with any
\* topic included, parsing its Display output succeeds and yields a value
\* equal to it.
C26_DisplayParsesBack ==
    epc = "done" => (evParsed.ok /\ evParsed.event = ev)

====
